---- MODULE Spec2Model ----
(***************************************************************************)
(* Left-recursion detection over a context-free grammar (src/main.rs).     *)
(*                                                                         *)
(* The grammar is an immutable value built by Symbol::new, Production::new,*)
(* Rule::new and Grammar::new; the queries are pure and recursive.  Each   *)
(* query is an operator that computes what the Rust code computes, in the  *)
(* order the code computes it: fold(false, |acc, x| acc || f(x)) visits    *)
(* the elements left to right and does not evaluate f(x) once acc is true. *)
(* A query ends in one of three ways: it returns a bool, it panics (an     *)
(* unwrap on None, or expect("No matching LHS symbol.")), or its         *)
(* recursion exhausts the call stack.                                      *)
(***************************************************************************)
EXTENDS Naturals, Sequences, FiniteSets

VARIABLES grammar, call, result

vars == <<grammar, call, result>>

-----------------------------------------------------------------------------
(* Bounds of the model.                                                    *)

\* The right-hand sides of an enumerated grammar hold at most MaxSize symbol
\* slots in total (an empty production takes one slot).
MaxSize == 3

\* The depth of nested derives_to_symbol calls the call stack holds.
StackLimit == 12

-----------------------------------------------------------------------------
(* Outcomes of a call.                                                     *)

Returned(b) == [status |-> "returned", value |-> b, msg |-> ""]

Panicked(m) == [status |-> "panicked", value |-> FALSE, msg |-> m]

StackOverflow == [status |-> "overflowed", value |-> FALSE, msg |-> ""]

UnwrapNone == "called Option::unwrap() on a None value"

NoMatchingLhs == "No matching LHS symbol."

-----------------------------------------------------------------------------
(* Symbol texts: a text is the sequence of its bytes; the bytes after the  *)
(* first may be kept together in one chunk.                                *)

NonTerminalTexts == {<<"<", "A", ">">>, <<"<", "B", ">">>, <<"<", "C", ">">>}

TerminalTexts == {<<"x">>}

Texts == NonTerminalTexts \cup TerminalTexts

-----------------------------------------------------------------------------
(* Symbol                                                                  *)

SymbolNew(text) ==
    IF Len(text) = 0
    THEN Panicked("Symbol text must be nonempty string.")
    ELSE [text |-> text]

IsTerminal(s) == s.text[1] # "<"

-----------------------------------------------------------------------------
(* Production                                                              *)

ProductionNew(symbols) == [symbols |-> symbols]

-----------------------------------------------------------------------------
(* Rule                                                                    *)

RuleNew(symbol, productions) ==
    LET lhs_symbol == SymbolNew(symbol) IN
    IF Len(symbol) = 0
    THEN lhs_symbol
    ELSE IF IsTerminal(lhs_symbol)
    THEN Panicked("LHS symbol of rule must be non-terminal.")
    ELSE IF Len(productions) = 0
    THEN Panicked("Rule must have at least one production.")
    ELSE [symbol |-> lhs_symbol, derivations |-> productions]

RECURSIVE DirectFold(_, _, _)
DirectFold(rule, i, acc) ==
    IF i > Len(rule.derivations)
    THEN Returned(acc)
    ELSE IF acc
    THEN DirectFold(rule, i + 1, TRUE)
    ELSE LET p == rule.derivations[i] IN
         IF Len(p.symbols) = 0
         THEN Panicked(UnwrapNone)
         ELSE DirectFold(rule, i + 1, p.symbols[1].text = rule.symbol.text)

\* A variant that looks for the left-hand symbol anywhere in a production.
HasDirectLeftRecursion_AnyPosition(rule) ==
    Returned(\E j \in 1..Len(rule.derivations) :
                \E k \in 1..Len(rule.derivations[j].symbols) :
                    rule.derivations[j].symbols[k].text = rule.symbol.text)

HasDirectLeftRecursion(rule) == DirectFold(rule, 1, FALSE)

-----------------------------------------------------------------------------
(* Grammar                                                                 *)

GrammarNew(rules) == [rules |-> rules]

\* Option<&Rule>: the empty sequence is None, <<r>> is Some(r).
FindRule(g, start) ==
    LET matching == {i \in 1..Len(g.rules) : g.rules[i].symbol.text = start.text} IN
    IF matching = {}
    THEN <<>>
    ELSE <<g.rules[CHOOSE i \in matching : \A j \in matching : i <= j]>>

RECURSIVE DerivesToSymbol(_, _, _, _)
RECURSIVE DerivesToSymbolHelper(_, _, _, _)
RECURSIVE DerivesFold(_, _, _, _, _, _)

\* A variant that compares with the target and never expands start.
DerivesToSymbolHelper_OneStep(g, start, target, depth) ==
    Returned(start.text = target.text)

DerivesToSymbolHelper(g, start, target, depth) ==
    IF start.text = target.text
    THEN Returned(TRUE)
    ELSE DerivesToSymbol(g, start, target, depth)

\* A variant that follows the first alternative only.
DerivesFold_FirstAlternativeOnly(g, derivations, i, acc, target, depth) ==
    IF Len(derivations[1].symbols) = 0
    THEN Panicked(UnwrapNone)
    ELSE DerivesToSymbolHelper(g, derivations[1].symbols[1], target, depth + 1)

DerivesFold(g, derivations, i, acc, target, depth) ==
    IF i > Len(derivations)
    THEN Returned(acc)
    ELSE IF acc
    THEN DerivesFold(g, derivations, i + 1, TRUE, target, depth)
    ELSE LET production == derivations[i] IN
         IF Len(production.symbols) = 0
         THEN Panicked(UnwrapNone)
         ELSE LET r == DerivesToSymbolHelper(g, production.symbols[1], target, depth + 1) IN
              IF r.status # "returned"
              THEN r
              ELSE DerivesFold(g, derivations, i + 1, r.value, target, depth)

\* A variant that treats a non-terminal without a rule as deriving nothing.
DerivesToSymbol_MissingRuleIsFalse(g, start, target, depth) ==
    IF depth > StackLimit
    THEN StackOverflow
    ELSE IF IsTerminal(start)
    THEN Returned(FALSE)
    ELSE LET starting_rule == FindRule(g, start) IN
         IF starting_rule = <<>>
         THEN Returned(FALSE)
         ELSE DerivesFold(g, starting_rule[1].derivations, 1, FALSE, target, depth)

DerivesToSymbol(g, start, target, depth) ==
    IF depth > StackLimit
    THEN StackOverflow
    ELSE IF IsTerminal(start)
    THEN Returned(FALSE)
    ELSE LET starting_rule == FindRule(g, start) IN
         IF starting_rule = <<>>
         THEN Panicked(NoMatchingLhs)
         ELSE DerivesFold(g, starting_rule[1].derivations, 1, FALSE, target, depth)

RECURSIVE IndirectFold(_, _, _)
IndirectFold(g, i, acc) ==
    IF i > Len(g.rules)
    THEN Returned(acc)
    ELSE IF acc
    THEN IndirectFold(g, i + 1, TRUE)
    ELSE LET r == DerivesToSymbol(g, g.rules[i].symbol, g.rules[i].symbol, 1) IN
         IF r.status # "returned"
         THEN r
         ELSE IndirectFold(g, i + 1, r.value)

HasIndirectLeftRecursion(g) == IndirectFold(g, 1, FALSE)

RECURSIVE AnyDirectFold(_, _, _)
AnyDirectFold(g, i, acc) ==
    IF i > Len(g.rules)
    THEN Returned(acc)
    ELSE IF acc
    THEN AnyDirectFold(g, i + 1, TRUE)
    ELSE LET r == HasDirectLeftRecursion(g.rules[i]) IN
         IF r.status # "returned"
         THEN r
         ELSE AnyDirectFold(g, i + 1, r.value)

\* A variant that leaves out the indirect check.
HasLeftRecursion_DirectOnly(g) == AnyDirectFold(g, 1, FALSE)

HasLeftRecursion(g) ==
    LET has_direct_left == AnyDirectFold(g, 1, FALSE) IN
    IF has_direct_left.status # "returned"
    THEN has_direct_left
    ELSE IF has_direct_left.value
    THEN Returned(TRUE)
    ELSE HasIndirectLeftRecursion(g)

-----------------------------------------------------------------------------
(* The grammar of main.                                                    *)

Sym(t) == SymbolNew(t)

NT(name) == <<"<", name, ">">>

MainGrammar ==
    GrammarNew(<<
        RuleNew(NT("REGEX"), <<
            ProductionNew(<<Sym(NT("LOW_PRECEDENCE"))>>) >>),
        RuleNew(NT("LOW_PRECEDENCE"), <<
            ProductionNew(<<Sym(NT("MED_PRECEDENCE")), Sym(NT("ALTERNAT"))>>) >>),
        RuleNew(NT("ALTERNAT"), <<
            ProductionNew(<<Sym(<<"|">>), Sym(NT("LOW_PRECEDENCE"))>>),
            ProductionNew(<<Sym(<<"E", "mptyString">>)>>) >>),
        RuleNew(NT("MED_PRECEDENCE"), <<
            ProductionNew(<<Sym(NT("HIGH_PRECEDENCE")), Sym(NT("CONCAT"))>>) >>),
        RuleNew(NT("CONCAT"), <<
            ProductionNew(<<Sym(NT("MED_PRECEDENCE"))>>),
            ProductionNew(<<Sym(<<"E", "mptyString">>)>>) >>),
        RuleNew(NT("HIGH_PRECEDENCE"), <<
            ProductionNew(<<Sym(NT("GIGA_PRECEDENCE")), Sym(NT("KLEENE"))>>) >>),
        RuleNew(NT("KLEENE"), <<
            ProductionNew(<<Sym(<<"*">>)>>),
            ProductionNew(<<Sym(<<"E", "mptyString">>)>>) >>),
        RuleNew(NT("GIGA_PRECEDENCE"), <<
            ProductionNew(<<Sym(<<"(">>), Sym(NT("LOW_PRECEDENCE")), Sym(<<")">>)>>),
            ProductionNew(<<Sym(NT("TERMINAL"))>>) >>),
        RuleNew(NT("TERMINAL"), <<
            ProductionNew(<<Sym(<<"E", "mptySet">>)>>),
            ProductionNew(<<Sym(<<"E", "mptyString">>)>>),
            ProductionNew(<<Sym(<<"C">>)>>) >>)
    >>)

-----------------------------------------------------------------------------------------------------------------------------------------------------
(* The grammars a caller can build within the bounds.  A shape gives, for  *)
(* each rule, the lengths of its productions; a grammar is a shape, a      *)
(* left-hand text per rule and a symbol per position, passed through the   *)
(* constructors.                                                           *)

Symbols == {SymbolNew(t) : t \in Texts}

\* The production lengths that take n slots.
LengthsOfSize(n) == IF n = 1 THEN {0, n} ELSE {n}

\* The non-empty lists of production lengths that take n slots.
RECURSIVE DerivationShapes(_)
DerivationShapes(n) ==
    {<<l>> : l \in LengthsOfSize(n)}
    \cup UNION {{<<l>> \o ds : l \in LengthsOfSize(m), ds \in DerivationShapes(n - m)} :
                m \in 1..(n - 1)}

\* The lists of rule shapes that take n slots.
RECURSIVE RuleListShapes(_)
RuleListShapes(n) ==
    IF n = 0
    THEN {<<>>}
    ELSE UNION {{<<r>> \o rs : r \in DerivationShapes(m), rs \in RuleListShapes(n - m)} :
                m \in 1..n}

GrammarShapes == UNION {RuleListShapes(n) : n \in 0..MaxSize}

RECURSIVE SumOf(_)
SumOf(lens) == IF lens = <<>> THEN 0 ELSE Head(lens) + SumOf(Tail(lens))

RECURSIVE SymbolCount(_)
SymbolCount(shape) ==
    IF shape = <<>> THEN 0 ELSE SumOf(Head(shape)) + SymbolCount(Tail(shape))

RECURSIVE BuildProductions(_, _)
BuildProductions(lens, fill) ==
    IF lens = <<>>
    THEN <<>>
    ELSE <<ProductionNew(SubSeq(fill, 1, Head(lens)))>>
         \o BuildProductions(Tail(lens), SubSeq(fill, Head(lens) + 1, Len(fill)))

RECURSIVE BuildRules(_, _, _)
BuildRules(shape, lhs, fill) ==
    IF shape = <<>>
    THEN <<>>
    ELSE LET n == SumOf(Head(shape)) IN
         <<RuleNew(Head(lhs), BuildProductions(Head(shape), SubSeq(fill, 1, n)))>>
         \o BuildRules(Tail(shape), Tail(lhs), SubSeq(fill, n + 1, Len(fill)))

IsPanic(v) == "status" \in DOMAIN v

\* The symbols a caller passes to derives_to_symbol.
QuerySymbols == Symbols

-----
(* The state machine: a run builds one grammar and makes one query of it,  *)
(* as main does (the grammar is immutable and the queries are pure, so a   *)
(* second query of the same run would see what the first one saw).         *)

NoCall == [op |-> "none", args |-> <<>>]

InitBuilt ==
    \E shape \in GrammarShapes :
        \E lhs \in [1..Len(shape) -> Texts], fill \in [1..SymbolCount(shape) -> Symbols] :
            LET rules == BuildRules(shape, lhs, fill) IN
            /\ \A i \in 1..Len(rules) : ~IsPanic(rules[i])
            /\ grammar = GrammarNew(rules)

InitMain == grammar = MainGrammar

Init ==
    /\ InitBuilt \/ InitMain
    /\ call = NoCall
    /\ result = Returned(FALSE)

CallHasDirectLeftRecursion ==
    \E i \in 1..Len(grammar.rules) :
        /\ call = NoCall
        /\ call' = [op |-> "has_direct_left_recursion", args |-> <<i>>]
        /\ result' = HasDirectLeftRecursion(grammar.rules[i])
        /\ UNCHANGED grammar

CallDerivesToSymbol ==
    \E start \in QuerySymbols, target \in QuerySymbols :
        /\ call = NoCall
        /\ call' = [op |-> "derives_to_symbol", args |-> <<start, target>>]
        /\ result' = DerivesToSymbol(grammar, start, target, 1)
        /\ UNCHANGED grammar

CallHasIndirectLeftRecursion ==
    /\ call = NoCall
    /\ call' = [op |-> "has_indirect_left_recursion", args |-> <<>>]
    /\ result' = HasIndirectLeftRecursion(grammar)
    /\ UNCHANGED grammar

CallHasLeftRecursion ==
    /\ call = NoCall
    /\ call' = [op |-> "has_left_recursion", args |-> <<>>]
    /\ result' = HasLeftRecursion(grammar)
    /\ UNCHANGED grammar

Next ==
    \/ CallHasDirectLeftRecursion
    \/ CallHasIndirectLeftRecursion
    \/ CallHasLeftRecursion

Spec == Init /\ [][Next]_vars

\* The runs whose one query is derives_to_symbol.
NextDerives == CallDerivesToSymbol

SpecDerives == Init /\ [][NextDerives]_vars

-----------------------------------------------------------------------------
(* The leftmost-expansion graph of a grammar: an edge goes from a rule's   *)
(* left-hand text to the text of the first symbol of each of its           *)
(* productions.                                                            *)

RuleEdges(r) ==
    {<<r.symbol.text, r.derivations[j].symbols[1].text>> :
        j \in {k \in 1..Len(r.derivations) : Len(r.derivations[k].symbols) > 0}}

Edges(g) == UNION {RuleEdges(g.rules[i]) : i \in 1..Len(g.rules)}

Successors(E, nodes) == {e[2] : e \in {d \in E : d[1] \in nodes}}

\* The nodes reached from `nodes` in zero or more steps of E.
RECURSIVE Closure(_, _)
Closure(E, nodes) ==
    LET next == nodes \cup Successors(E, nodes) IN
    IF next = nodes THEN nodes ELSE Closure(E, next)

\* b is reached from a in one or more steps of E.
Reaches(E, a, b) == b \in Closure(E, Successors(E, {a}))

LhsTexts(g) == {g.rules[i].symbol.text : i \in 1..Len(g.rules)}

\* Some rule's left-hand symbol reaches itself in one or more steps.
HasCycle(g) == \E t \in LhsTexts(g) : Reaches(Edges(g), t, t)

DistinctLhs(g) ==
    \A i, j \in 1..Len(g.rules) :
        i # j => g.rules[i].symbol.text # g.rules[j].symbol.text

NonEmptyProductions(g) ==
    \A i \in 1..Len(g.rules) :
        \A j \in 1..Len(g.rules[i].derivations) :
            Len(g.rules[i].derivations[j].symbols) > 0

IsNonTerminalText(t) == t[1] = "<"

\* The non-terminals that are the first symbol of a production and have no rule.
UndefinedFirstSymbols(g) ==
    {e[2] : e \in {d \in Edges(g) : IsNonTerminalText(d[2]) /\ d[2] \notin LhsTexts(g)}}

FirstSymbolsDefined(g) == UndefinedFirstSymbols(g) = {}

\* Rule r has a production whose first symbol is r's own left-hand symbol.
DirectlyLeftRecursive(r) ==
    \E j \in 1..Len(r.derivations) :
        /\ Len(r.derivations[j].symbols) > 0
        /\ r.derivations[j].symbols[1].text = r.symbol.text

\* The rule the query has_direct_left_recursion was made of.
QueriedRule == grammar.rules[call.args[1]]

-----------------------------------------------------------------------------
(* Claims.                                                                 *)

\* C1 (as claimed): on a grammar with distinct left-hand sides, non-empty
\* productions and every first-symbol non-terminal defined,
\* has_left_recursion() returns true if some rule's left-hand symbol reaches
\* itself in one or more leftmost-expansion steps, and false otherwise.
C1_TotalCorrectness ==
    (/\ call.op = "has_left_recursion"
     /\ DistinctLhs(grammar)
     /\ NonEmptyProductions(grammar)
     /\ FirstSymbolsDefined(grammar))
    => result = Returned(HasCycle(grammar))

\* C2 (as claimed): on a grammar whose leftmost-expansion graph is acyclic
\* and whose first-symbol non-terminals all have a rule, has_left_recursion()
\* returns false; the grammar of main is one and evaluates to false.
C2_AcyclicReturnsFalse ==
    (/\ call.op = "has_left_recursion"
     /\ ~HasCycle(grammar)
     /\ FirstSymbolsDefined(grammar))
    => result = Returned(FALSE)

\* The part of C2 about the grammar of main: it is acyclic, every first
\* symbol is defined, and has_left_recursion() returns false on it.
C2_MainGrammarFalse ==
    (call.op = "has_left_recursion" /\ grammar = MainGrammar)
    => /\ ~HasCycle(grammar)
       /\ FirstSymbolsDefined(grammar)
       /\ result = Returned(FALSE)

\* C3 (as claimed, here even restricted to distinct left-hand sides and
\* non-empty productions): whenever some production's first symbol is a
\* non-terminal without a rule, has_left_recursion() ends in the
\* "No matching LHS symbol." failure.
C3_UndefinedAlwaysFails ==
    (/\ call.op = "has_left_recursion"
     /\ ~FirstSymbolsDefined(grammar)
     /\ DistinctLhs(grammar)
     /\ NonEmptyProductions(grammar))
    => result = Panicked(NoMatchingLhs)

\* C3 (amended): on a grammar with distinct left-hand sides in which some
\* production's first symbol is a non-terminal without a rule,
\* has_left_recursion() never returns false; if the leftmost-expansion graph
\* is acyclic it ends in a failure, and that failure is the "No matching LHS
\* symbol." one when no production is empty.
C3_UndefinedNeverFalse ==
    (/\ call.op = "has_left_recursion"
     /\ ~FirstSymbolsDefined(grammar)
     /\ DistinctLhs(grammar))
    => /\ result # Returned(FALSE)
       /\ ~HasCycle(grammar) => result.status = "panicked"
       /\ (~HasCycle(grammar) /\ NonEmptyProductions(grammar))
              => result = Panicked(NoMatchingLhs)

C3_Witness ==
    /\ call.op = "has_left_recursion"
    /\ ~FirstSymbolsDefined(grammar)
    /\ DistinctLhs(grammar)
    /\ NonEmptyProductions(grammar)
    /\ ~HasCycle(grammar)
    /\ Len(grammar.rules) > 1
    /\ result = Panicked(NoMatchingLhs)

\* C4 (as claimed): no grammar holds an empty production, and no query fails
\* on the access to the first symbol of a production.
C4_NoEmptyProduction ==
    call.op # "none" => (NonEmptyProductions(grammar) /\ result # Panicked(UnwrapNone))

\* C5: for a rule with non-empty productions, has_direct_left_recursion()
\* returns true if and only if the first symbol of one of the rule's own
\* productions has the text of the rule's left-hand side (a later occurrence
\* of the left-hand symbol, or recursion through another rule, does not
\* count).
C5_DirectIffFirstSymbol ==
    (/\ call.op = "has_direct_left_recursion"
     /\ \A j \in 1..Len(QueriedRule.derivations) :
            Len(QueriedRule.derivations[j].symbols) > 0)
    => result = Returned(\E j \in 1..Len(QueriedRule.derivations) :
                            QueriedRule.derivations[j].symbols[1].text
                                = QueriedRule.symbol.text)

\* The left-hand symbol occurs later in a production, and the rule is on a
\* cycle through another rule, yet the answer is false.
C5_Witness ==
    /\ call.op = "has_direct_left_recursion"
    /\ DistinctLhs(grammar)
    /\ Reaches(Edges(grammar), QueriedRule.symbol.text, QueriedRule.symbol.text)
    /\ \E j \in 1..Len(QueriedRule.derivations) :
           /\ Len(QueriedRule.derivations[j].symbols) > 1
           /\ QueriedRule.derivations[j].symbols[2].text = QueriedRule.symbol.text
    /\ result = Returned(FALSE)

\* C6 (as claimed, here even restricted to distinct left-hand sides and
\* non-empty productions): when some rule has direct left recursion and
\* every first-symbol non-terminal has a rule,
\* has_indirect_left_recursion() returns true.
C6_IndirectSubsumesDirect ==
    (/\ call.op = "has_indirect_left_recursion"
     /\ \E i \in 1..Len(grammar.rules) : DirectlyLeftRecursive(grammar.rules[i])
     /\ FirstSymbolsDefined(grammar)
     /\ DistinctLhs(grammar)
     /\ NonEmptyProductions(grammar))
    => result = Returned(TRUE)

\* The bijections of 1..n.
Perms(n) == {f \in [1..n -> 1..n] : \A a, b \in 1..n : a # b => f[a] # f[b]}

\* The grammars got from g by permuting the productions of one rule.
ProductionPermutations(g) ==
    {GrammarNew([g.rules EXCEPT ![i] =
                    RuleNew(g.rules[i].symbol.text,
                            [k \in 1..Len(g.rules[i].derivations) |->
                                g.rules[i].derivations[f[k]]])]) :
        <<i, f>> \in UNION {{i} \X Perms(Len(g.rules[i].derivations)) :
                              i \in 1..Len(g.rules)}}

\* The outcome of the whole-grammar query op on g.
Query(op, g) ==
    IF op = "has_left_recursion" THEN HasLeftRecursion(g) ELSE HasIndirectLeftRecursion(g)

IsGrammarQuery == call.op \in {"has_left_recursion", "has_indirect_left_recursion"}

\* C7 (as claimed, here even restricted to distinct left-hand sides and
\* non-empty productions): permuting the productions of any rule leaves the
\* outcome of has_indirect_left_recursion() and has_left_recursion()
\* unchanged: the same boolean, the same failure, or recursing forever in
\* both orders.
C7_OrderIrrelevant ==
    (IsGrammarQuery /\ DistinctLhs(grammar) /\ NonEmptyProductions(grammar))
    => \A g2 \in ProductionPermutations(grammar) : Query(call.op, g2) = result

\* C7 (amended): permuting the productions of any rule never changes the
\* boolean returned: when both orders return, they return the same value.
\* On a grammar with non-empty productions whose leftmost-expansion graph is
\* acyclic the whole outcome is unchanged.  (Otherwise one order can return
\* true where another fails on an undefined non-terminal or recurses
\* forever.)
C7_SameBooleanWhenBothReturn ==
    IsGrammarQuery
    => \A g2 \in ProductionPermutations(grammar) :
          LET other == Query(call.op, g2) IN
          /\ (result.status = "returned" /\ other.status = "returned")
                 => other.value = result.value
          /\ (NonEmptyProductions(grammar) /\ ~HasCycle(grammar))
                 => other = result

\* A rule's productions are reordered, both orders return, and the answer
\* comes from the indirect check.
C7_Witness ==
    /\ call.op = "has_left_recursion"
    /\ \A i \in 1..Len(grammar.rules) : ~DirectlyLeftRecursive(grammar.rules[i])
    /\ result = Returned(TRUE)
    /\ \E g2 \in ProductionPermutations(grammar) :
           g2 # grammar /\ HasLeftRecursion(g2) = Returned(TRUE)

-----------------------------------------------------------------------------

\* The arguments of the derives_to_symbol query.
QueryStart == call.args[1]

QueryTarget == call.args[2]

\* The edges between non-terminals that have a rule and are not `target`.
EdgesAvoiding(g, target) ==
    {e \in Edges(g) : /\ e[1] # target.text
                      /\ e[2] # target.text
                      /\ e[2] \in LhsTexts(g)}

\* The leftmost-expansion graph has a cycle, reachable from start, that does
\* not pass through target and on which every symbol has a rule.
CycleAvoidingTarget(g, start, target) ==
    \E c \in Closure(Edges(g), {start.text}) :
        Reaches(EdgesAvoiding(g, target), c, c)

\* Every rule reachable from start has non-empty productions whose first
\* symbols, when non-terminal, have a rule.
NoFailureReachable(g, start) ==
    LET reached == Closure(Edges(g), {start.text}) IN
    /\ \A t \in reached : IsNonTerminalText(t) => t \in LhsTexts(g)
    /\ \A i \in 1..Len(g.rules) :
           g.rules[i].symbol.text \in reached
               => \A j \in 1..Len(g.rules[i].derivations) :
                      Len(g.rules[i].derivations[j].symbols) > 0

\* C8 (as claimed, here even restricted to distinct left-hand sides and
\* non-empty productions): derives_to_symbol(start, target) does not
\* terminate whenever the leftmost-expansion graph has a cycle, reachable
\* from start, that does not pass through target and on which every symbol
\* is a non-terminal with a rule.
C8_CycleNeverTerminates ==
    (/\ call.op = "derives_to_symbol"
     /\ DistinctLhs(grammar)
     /\ NonEmptyProductions(grammar)
     /\ CycleAvoidingTarget(grammar, QueryStart, QueryTarget))
    => result = StackOverflow

\* C8 (amended): on a grammar with distinct left-hand sides that has such a
\* cycle, derives_to_symbol(start, target) never returns false; it does not
\* terminate when, in addition, target is not reachable from start and
\* every rule reachable from start has non-empty productions whose first
\* non-terminals have rules.  (Otherwise an alternative evaluated before the
\* cycle can return true, or a failure can come first.)
C8_CycleNeverFalse ==
    (/\ call.op = "derives_to_symbol"
     /\ DistinctLhs(grammar)
     /\ CycleAvoidingTarget(grammar, QueryStart, QueryTarget))
    => /\ result # Returned(FALSE)
       /\ (/\ ~Reaches(Edges(grammar), QueryStart.text, QueryTarget.text)
           /\ NoFailureReachable(grammar, QueryStart))
              => result = StackOverflow

\* The cycle is entered from a start outside it, and the recursion exhausts
\* the stack.
C8_Witness ==
    /\ call.op = "derives_to_symbol"
    /\ DistinctLhs(grammar)
    /\ CycleAvoidingTarget(grammar, QueryStart, QueryTarget)
    /\ ~Reaches(EdgesAvoiding(grammar, QueryTarget), QueryStart.text, QueryStart.text)
    /\ Len(grammar.rules) = 2
    /\ result = StackOverflow

-----------------------------------------------------------------------------

\* C9 (as claimed): if any rule has direct left recursion,
\* has_left_recursion() returns true from the direct check alone, also on
\* grammars where the indirect check would fail or recurse forever.
C9_DirectShortCircuits ==
    (/\ call.op = "has_left_recursion"
     /\ \E i \in 1..Len(grammar.rules) : DirectlyLeftRecursive(grammar.rules[i]))
    => result = Returned(TRUE)

\* C10: on a grammar with distinct left-hand sides and non-empty
\* productions, a boolean returned by has_left_recursion() is true exactly
\* when some rule's left-hand symbol reaches itself in one or more
\* leftmost-expansion steps.
C10_PartialCorrectness ==
    (/\ call.op = "has_left_recursion"
     /\ DistinctLhs(grammar)
     /\ NonEmptyProductions(grammar)
     /\ result.status = "returned")
    => result.value = HasCycle(grammar)

\* True is returned for a cycle through two rules, none of them directly
\* left recursive, in a grammar that also names an undefined non-terminal.
C10_Witness ==
    /\ call.op = "has_left_recursion"
    /\ DistinctLhs(grammar)
    /\ NonEmptyProductions(grammar)
    /\ \A i \in 1..Len(grammar.rules) : ~DirectlyLeftRecursive(grammar.rules[i])
    /\ ~FirstSymbolsDefined(grammar)
    /\ result = Returned(TRUE)

-----------------------------------------------------------------------------
(* The stack bound stands for unbounded recursion: a query exhausts the    *)
(* stack only on a grammar whose leftmost-expansion graph has a cycle.     *)

StackLimitSound == result = StackOverflow => HasCycle(grammar)

====
